---- MODULE Spec2Model ----
(***************************************************************************)
(* Model of patrickstar/core/eviction_policy.py: the access trace kept by  *)
(* ChunkEvictionPolicyBase, its next-use prediction, and the eviction plan *)
(* computed by LRUEvictionPolicy.derive_eviction_list.  The Metronome      *)
(* (patrickstar.utils) is modelled from the specification document.        *)
(***************************************************************************)
EXTENDS Integers, Sequences, FiniteSets

\* ---------------------------------------------------------------- bounds
NChunks == 3        \* chunk identifiers are 0 .. NChunks-1 (enumerate(chunks))
MaxMoment == 2      \* the Metronome is advanced at most up to this moment
MaxAccess == 2      \* at most this many trace_access calls in one behaviour
MaxPayload == 2     \* payload sizes are 1 .. MaxPayload
MaxNeed == 3        \* need_bytes ranges over -1 .. MaxNeed

\* ---------------------------------------------------------------- domains
ChunkIds == 0 .. (NChunks - 1)
None == "None"
Devices == {"cpu", "cuda:0"}
ChunkStates == {"FREE", "COMPUTE", "HOLD", "RELEASED"}

\* torch.device.type: the part of the device before the index
DeviceType(dev) == CASE dev = "cpu" -> "cpu" [] dev = "cuda:0" -> "cuda"

\* What derive_eviction_list reads of one chunk: get_device(), get_state(),
\* is_pin(), get_payload_space().
ChunkViews ==
    [device : Devices \cup {None}, state : ChunkStates,
     pin : BOOLEAN, payload : 1 .. MaxPayload]

\* Chunks every test of the filter lets through for a cuda target
MovableKinds ==
    {c \in ChunkViews : c.device = "cuda:0" /\ c.state = "HOLD" /\ ~c.pin}

\* Chunks that fail one test of the filter for a cuda target: placed on the
\* other device type, not placed, in COMPUTE, RELEASED, or pinned
OtherKinds ==
    {c \in ChunkViews :
        /\ c.payload = 1
        /\ \/ c.device = "cpu" /\ c.state = "FREE" /\ ~c.pin
           \/ c.device = None /\ c.state = "FREE" /\ ~c.pin
           \/ c.device = "cuda:0" /\ c.state \in {"COMPUTE", "RELEASED"} /\ ~c.pin
           \/ c.device = "cuda:0" /\ c.state = "HOLD" /\ c.pin}

\* The registries handed to derive_eviction_list: NChunks chunks, at most
\* one of them of the second sort
Registries ==
    {cs \in [ChunkIds -> MovableKinds \cup OtherKinds] :
        Cardinality({i \in ChunkIds : cs[i] \in OtherKinds}) <= 1}

NeedValues == (-1) .. MaxNeed

VARIABLES
    moment,             \* Metronome.moment
    total_moment,       \* Metronome.total_moment
    is_warmup,          \* Metronome.is_warmup
    chunk_access_dict,  \* (chunk_id, dev) -> list of moments
    chunks,             \* derive_eviction_list: argument chunks
    need_bytes,         \* derive_eviction_list: argument need_bytes
    target_device,      \* derive_eviction_list: argument target_device
    moved_list,         \* derive_eviction_list: the returned plan
    moved_bytes,        \* derive_eviction_list: bytes accumulated by the walk
    warned,             \* derive_eviction_list: log_dist(WARNING) was called
    outcome             \* how the standing call ended: "returned", "raised"; "none": no call

metronome == <<moment, total_moment, is_warmup>>
call == <<chunks, need_bytes, target_device, moved_list, moved_bytes, warned, outcome>>
vars == <<moment, total_moment, is_warmup, chunk_access_dict, chunks,
          need_bytes, target_device, moved_list, moved_bytes, warned, outcome>>

\* ------------------------------------------------------------ trace_access
\* total number of moments stored in the dict
RECURSIVE DictSize(_, _)
DictSize(d, ks) ==
    IF ks = {} THEN 0
    ELSE LET k == CHOOSE x \in ks : TRUE
         IN Len(d[k]) + DictSize(d, ks \ {k})

\* the moment put at the head of the list instead of its end
TraceInsertFirst(d, key, cur_mom) ==
    LET d1 == IF key \in DOMAIN d THEN d
              ELSE [k \in DOMAIN d \cup {key} |-> IF k = key THEN <<>> ELSE d[k]]
    IN [d1 EXCEPT ![key] = <<cur_mom>> \o d1[key]]

\* a first access that creates the list of its key and appends nothing
TraceCreateOnly(d, key, cur_mom) ==
    IF key \in DOMAIN d THEN [d EXCEPT ![key] = Append(d[key], cur_mom)]
    ELSE [k \in DOMAIN d \cup {key} |-> IF k = key THEN <<>> ELSE d[k]]

\* lines 51-54: setdefault to [] and append the current moment
TraceAppend(d, key, cur_mom) ==
    LET d1 == IF key \in DOMAIN d THEN d
              ELSE [k \in DOMAIN d \cup {key} |-> IF k = key THEN <<>> ELSE d[k]]
    IN [d1 EXCEPT ![key] = Append(d1[key], cur_mom)]

\* ------------------------------------------------- _chunk_next_used_moment
\* the for loop comparing with >= instead of >
RECURSIVE ScanAccessListNotStrict(_, _, _)
ScanAccessListNotStrict(access_mom_list, cur_mom, i) ==
    IF i > Len(access_mom_list) THEN -1
    ELSE IF access_mom_list[i] >= cur_mom THEN access_mom_list[i]
    ELSE ScanAccessListNotStrict(access_mom_list, cur_mom, i + 1)

\* lines 69-71: the for loop, from index i on; -1 stands for "fell through"
RECURSIVE ScanAccessList(_, _, _)
ScanAccessList(access_mom_list, cur_mom, i) ==
    IF i > Len(access_mom_list) THEN -1
    ELSE IF access_mom_list[i] > cur_mom THEN access_mom_list[i]
    ELSE ScanAccessList(access_mom_list, cur_mom, i + 1)

\* the prediction with one period, not two, for a pair without a trace
NextUsedMomentUnseenOnePeriod(warm, cur_mom, total_mom, dict, chunk_id, dev) ==
    IF warm THEN 0
    ELSE IF <<chunk_id, dev>> \notin DOMAIN dict THEN total_mom
    ELSE LET access_mom_list == dict[<<chunk_id, dev>>]
             found == ScanAccessList(access_mom_list, cur_mom, 1)
         IN IF found # -1 THEN found
            ELSE total_mom + access_mom_list[1]

\* the prediction without the wrap into the next period: the first recorded
\* moment itself when no recorded moment is later than cur_mom
NextUsedMomentNoWrap(warm, cur_mom, total_mom, dict, chunk_id, dev) ==
    IF warm THEN 0
    ELSE IF <<chunk_id, dev>> \notin DOMAIN dict THEN 2 * total_mom
    ELSE LET access_mom_list == dict[<<chunk_id, dev>>]
             found == ScanAccessList(access_mom_list, cur_mom, 1)
         IN IF found # -1 THEN found
            ELSE access_mom_list[1]

\* the prediction keyed by the chunk alone: the trace of (chunk_id, dev) when
\* there is one, else the trace of the chunk on any other device
NextUsedMomentAnyDevice(warm, cur_mom, total_mom, dict, chunk_id, dev) ==
    LET keys == {k \in DOMAIN dict : k[1] = chunk_id}
    IN IF warm THEN 0
       ELSE IF keys = {} THEN 2 * total_mom
       ELSE LET key == IF <<chunk_id, dev>> \in keys THEN <<chunk_id, dev>>
                       ELSE CHOOSE k \in keys : TRUE
                access_mom_list == dict[key]
                found == ScanAccessList(access_mom_list, cur_mom, 1)
            IN IF found # -1 THEN found
               ELSE total_mom + access_mom_list[1]

\* lines 56-72 as a function of the state it reads
NextUsedMoment(warm, cur_mom, total_mom, dict, chunk_id, dev) ==
    IF warm THEN 0
    ELSE IF <<chunk_id, dev>> \notin DOMAIN dict THEN 2 * total_mom
    ELSE LET access_mom_list == dict[<<chunk_id, dev>>]
             found == ScanAccessList(access_mom_list, cur_mom, 1)
         IN IF found # -1 THEN found
            ELSE total_mom + access_mom_list[1]

\* self._chunk_next_used_moment(chunk_id, dev) in the current state
chunk_next_used_moment(chunk_id, dev) ==
    NextUsedMoment(is_warmup, moment, total_moment, chunk_access_dict, chunk_id, dev)

\* ---------------------------------------------------- derive_eviction_list
\* the filter without its is_pin() test
MovableIgnoringPin(chunk, target) ==
    /\ chunk.device # None
    /\ DeviceType(chunk.device) = DeviceType(target)
    /\ chunk.state # "COMPUTE"
    /\ chunk.state # "RELEASED"

\* lines 87-93: the filter of the enumerate loop
Movable(chunk, target) ==
    /\ chunk.device # None
    /\ DeviceType(chunk.device) = DeviceType(target)
    /\ chunk.state # "COMPUTE"
    /\ chunk.state # "RELEASED"
    /\ ~chunk.pin

\* the queue entry without the negation of next_mom
QueueEntryAscending(chunk_id, target) == <<chunk_next_used_moment(chunk_id, target), chunk_id>>

\* line 98: the entry put on the priority queue for a movable chunk
QueueEntry(chunk_id, target) == <<-chunk_next_used_moment(chunk_id, target), chunk_id>>

\* lines 86-99: the queue after the enumerate loop
FillQueue(cs, target) ==
    {QueueEntry(chunk_id, target) : chunk_id \in {i \in DOMAIN cs : Movable(cs[i], target)}}

\* a comparison that takes the larger chunk_id first among equal keys
TupleLessTieDescending(a, b) == a[1] < b[1] \/ (a[1] = b[1] /\ a[2] > b[2])

\* Python's tuple comparison on (key, chunk_id)
TupleLess(a, b) == a[1] < b[1] \/ (a[1] = b[1] /\ a[2] < b[2])

\* PriorityQueue.get(): the smallest entry
QueueGet(q) == CHOOSE e \in q : \A f \in q \ {e} : TupleLess(e, f)

\* the while loop leaving one byte too early
RECURSIVE WalkOneByteShort(_, _, _, _, _)
WalkOneByteShort(q, cs, need, list, bytes) ==
    IF q = {} THEN <<list, bytes>>
    ELSE LET e == QueueGet(q)
             chunk_id == e[2]
             bytes1 == bytes + cs[chunk_id].payload
             list1 == Append(list, chunk_id)
         IN IF bytes1 + 1 >= need THEN <<list1, bytes1>>
            ELSE WalkOneByteShort(q \ {e}, cs, need, list1, bytes1)

\* the while loop without its break: the queue is always drained
RECURSIVE WalkWithoutBreak(_, _, _, _, _)
WalkWithoutBreak(q, cs, need, list, bytes) ==
    IF q = {} THEN <<list, bytes>>
    ELSE LET e == QueueGet(q)
             chunk_id == e[2]
         IN WalkWithoutBreak(q \ {e}, cs, need, Append(list, chunk_id),
                             bytes + cs[chunk_id].payload)

\* the while loop leaving only when moved_bytes exceeds need_bytes
RECURSIVE WalkUntilMore(_, _, _, _, _)
WalkUntilMore(q, cs, need, list, bytes) ==
    IF q = {} THEN <<list, bytes>>
    ELSE LET e == QueueGet(q)
             chunk_id == e[2]
             bytes1 == bytes + cs[chunk_id].payload
             list1 == Append(list, chunk_id)
         IN IF bytes1 > need THEN <<list1, bytes1>>
            ELSE WalkUntilMore(q \ {e}, cs, need, list1, bytes1)

\* the while loop testing moved_bytes before it takes a chunk
RECURSIVE WalkTestFirst(_, _, _, _, _)
WalkTestFirst(q, cs, need, list, bytes) ==
    IF q = {} \/ bytes >= need THEN <<list, bytes>>
    ELSE LET e == QueueGet(q)
             chunk_id == e[2]
         IN WalkTestFirst(q \ {e}, cs, need, Append(list, chunk_id),
                          bytes + cs[chunk_id].payload)

\* the while loop appending the identifier of a taken chunk twice
RECURSIVE WalkAppendingTwice(_, _, _, _, _)
WalkAppendingTwice(q, cs, need, list, bytes) ==
    IF q = {} THEN <<list, bytes>>
    ELSE LET e == QueueGet(q)
             chunk_id == e[2]
             bytes1 == bytes + cs[chunk_id].payload
             list1 == list \o <<chunk_id, chunk_id>>
         IN IF bytes1 >= need THEN <<list1, bytes1>>
            ELSE WalkAppendingTwice(q \ {e}, cs, need, list1, bytes1)

\* lines 104-109: the while loop; yields <<moved_list, moved_bytes>>
RECURSIVE Walk(_, _, _, _, _)
Walk(q, cs, need, list, bytes) ==
    IF q = {} THEN <<list, bytes>>
    ELSE LET e == QueueGet(q)
             chunk_id == e[2]
             bytes1 == bytes + cs[chunk_id].payload
             list1 == Append(list, chunk_id)
         IN IF bytes1 >= need THEN <<list1, bytes1>>
            ELSE Walk(q \ {e}, cs, need, list1, bytes1)

\* the block after the loop raising on a shortfall, as its comment says
AfterWalkRaising(bytes, need) ==
    [warned |-> FALSE, outcome |-> IF bytes < need THEN "raised" ELSE "returned"]

\* the block after the loop warning also when the plan meets need_bytes exactly
AfterWalkWarnOnEqual(bytes, need) ==
    [warned |-> bytes <= need, outcome |-> "returned"]

\* lines 111-120: after the loop a shortfall is logged as a warning, and the
\* plan is returned either way
AfterWalk(bytes, need) ==
    [warned |-> bytes < need, outcome |-> "returned"]

\* -------------------------------------------------------------------- Init
NoCall ==
    /\ chunks = <<>>
    /\ need_bytes = 0
    /\ target_device = None
    /\ moved_list = <<>>
    /\ moved_bytes = 0
    /\ warned = FALSE
    /\ outcome = "none"

\* an operation other than derive_eviction_list leaves no call to look at
ClearCall ==
    /\ chunks' = <<>>
    /\ need_bytes' = 0
    /\ target_device' = None
    /\ moved_list' = <<>>
    /\ moved_bytes' = 0
    /\ warned' = FALSE
    /\ outcome' = "none"

Init ==
    /\ moment = 0
    /\ total_moment = 0
    /\ is_warmup = TRUE
    /\ chunk_access_dict = <<>>
    /\ NoCall

\* ----------------------------------------------------------------- actions
\* ChunkEvictionPolicyBase.trace_access(chunk_id, dev)
trace_access(chunk_id, dev) ==
    /\ DictSize(chunk_access_dict, DOMAIN chunk_access_dict) < MaxAccess
    /\ chunk_access_dict' = TraceAppend(chunk_access_dict, <<chunk_id, dev>>, moment)
    /\ UNCHANGED metronome
    /\ UNCHANGED call

\* Metronome: advance by one moment
tiktac ==
    /\ moment < MaxMoment
    /\ moment' = moment + 1
    /\ UNCHANGED <<total_moment, is_warmup, chunk_access_dict>>
    /\ UNCHANGED call

\* Metronome: the warm-up step is over; the period length is fixed and the
\* next step starts at moment 0
end_warmup ==
    /\ is_warmup
    /\ total_moment' = moment
    /\ is_warmup' = FALSE
    /\ moment' = 0
    /\ UNCHANGED chunk_access_dict
    /\ UNCHANGED call

\* a call that also records an access of the first chunk it moves
derive_eviction_list_tracing(cs, need, target) ==
    LET r == Walk(FillQueue(cs, target), cs, need, <<>>, 0)
        a == AfterWalk(r[2], need)
    IN /\ chunks' = cs
       /\ need_bytes' = need
       /\ target_device' = target
       /\ moved_list' = r[1]
       /\ moved_bytes' = r[2]
       /\ warned' = a.warned
       /\ outcome' = a.outcome
       /\ chunk_access_dict' =
              IF r[1] = <<>> THEN chunk_access_dict
              ELSE TraceAppend(chunk_access_dict, <<r[1][1], target>>, moment)
       /\ UNCHANGED metronome

\* LRUEvictionPolicy.derive_eviction_list(chunks, need_bytes, target_device).
derive_eviction_list(cs, need, target) ==
    LET r == Walk(FillQueue(cs, target), cs, need, <<>>, 0)
        a == AfterWalk(r[2], need)
    IN /\ chunks' = cs
       /\ need_bytes' = need
       /\ target_device' = target
       /\ moved_list' = r[1]
       /\ moved_bytes' = r[2]
       /\ warned' = a.warned
       /\ outcome' = a.outcome
       /\ UNCHANGED <<metronome, chunk_access_dict>>

\* the caller has taken the plan: the call's arguments and locals are gone
Return ==
    /\ outcome # "none"
    /\ ClearCall
    /\ UNCHANGED <<metronome, chunk_access_dict>>

\* One control path (no operation runs inside another): an operation starts
\* when no call's record is standing.  Every operation overwrites or leaves
\* the record and none reads it, so this leaves out no state.
Idle == outcome = "none"

Next ==
    \/ Idle /\ \E chunk_id \in ChunkIds, dev \in Devices : trace_access(chunk_id, dev)
    \/ Idle /\ tiktac
    \/ Idle /\ end_warmup
    \/ Idle /\ \E cs \in Registries, need \in NeedValues, target \in Devices :
                   derive_eviction_list(cs, need, target)
    \/ Return

Spec == Init /\ [][Next]_vars

\* ===================================================================
\* Properties
\* ===================================================================
Returned == outcome = "returned"
PlanIndices == 1 .. Len(moved_list)
PlanSet == {moved_list[i] : i \in PlanIndices}

\* section 4.4 step 1 for chunk i of the last call's registry
Evictable(i) ==
    /\ chunks[i].device # None
    /\ DeviceType(chunks[i].device) = DeviceType(target_device)
    /\ chunks[i].state \notin {"COMPUTE", "RELEASED"}
    /\ chunks[i].pin = FALSE

EvictableSet == {i \in DOMAIN chunks : Evictable(i)}

RECURSIVE SumPayload(_)
SumPayload(S) ==
    IF S = {} THEN 0
    ELSE LET i == CHOOSE x \in S : TRUE
         IN chunks[i].payload + SumPayload(S \ {i})

RECURSIVE SeqPayload(_)
SeqPayload(list) ==
    IF list = <<>> THEN 0
    ELSE chunks[Head(list)].payload + SeqPayload(Tail(list))

\* predicted next use of chunk i on the last call's target
Predicted(i) == chunk_next_used_moment(i, target_device)

\* i is ranked ahead of j: later predicted use, ties by smaller identifier
RanksAhead(i, j) ==
    \/ Predicted(i) > Predicted(j)
    \/ Predicted(i) = Predicted(j) /\ i < j

\* C1 (admissibility): every chunk identifier of a returned plan refers to a
\* chunk that has a device of the target's type, is neither in COMPUTE nor
\* in RELEASED state and is not pinned.
C1_Admissible ==
    Returned =>
        \A k \in PlanIndices :
            /\ moved_list[k] \in DOMAIN chunks
            /\ Evictable(moved_list[k])

\* A plan was returned after warm-up although the registry held a pinned
\* chunk on the target whose predicted next use is later than that of every
\* chunk of the plan.
C1_Witness ==
    /\ Returned
    /\ ~is_warmup
    /\ moved_list # <<>>
    /\ \E i \in DOMAIN chunks :
          /\ chunks[i].pin
          /\ chunks[i].device = target_device
          /\ \A k \in PlanIndices : Predicted(i) > Predicted(moved_list[k])

\* C2 (monotonic sufficiency): when the payloads of all evictable chunks sum
\* to at least need_bytes, the payloads of the plan sum to at least
\* need_bytes.
C2_Sufficient ==
    (Returned /\ SumPayload(EvictableSet) >= need_bytes)
        => SeqPayload(moved_list) >= need_bytes

\* The requirement was met exactly by all the evictable chunks together.
C2_Witness ==
    /\ Returned
    /\ need_bytes > 0
    /\ SumPayload(EvictableSet) = need_bytes
    /\ Len(moved_list) >= 2

\* C3 (ranking): the plan is a prefix of the evictable chunks sorted by
\* predicted next use descending, ties by ascending identifier: the plan has
\* no repetition, holds evictable chunks only, is in that order, and no
\* evictable chunk left out is ranked ahead of a chunk of the plan.
C3_RankedPrefix ==
    Returned =>
        /\ PlanSet \subseteq EvictableSet
        /\ \A k, l \in PlanIndices :
              k < l => RanksAhead(moved_list[k], moved_list[l])
        /\ \A i \in EvictableSet \ PlanSet :
              \A k \in PlanIndices : RanksAhead(moved_list[k], i)

\* Three evictable chunks with three different predictions, the first one
\* the soonest to be used and the second one the latest (as 3, 9, 6); the
\* plan is the second chunk then the third, and the first is left out.
C3_Witness ==
    /\ Returned
    /\ EvictableSet = {0, 1, 2}
    /\ Predicted(1) > Predicted(2)
    /\ Predicted(2) > Predicted(0)
    /\ Predicted(0) > 0
    /\ moved_list = <<1, 2>>

\* C4 (cyclic prediction): after warm-up, for a pair with a recorded trace,
\* the prediction is the first recorded moment, in recorded order, that is
\* greater than the current moment, and total_moment plus the first
\* recorded moment when there is none.
C4_CyclicPrediction ==
    ~is_warmup =>
        \A key \in DOMAIN chunk_access_dict :
            LET trace == chunk_access_dict[key]
                later == {n \in 1 .. Len(trace) : trace[n] > moment}
            IN chunk_next_used_moment(key[1], key[2]) =
                   IF later = {}
                   THEN total_moment + trace[1]
                   ELSE trace[CHOOSE n \in later : \A m \in later : n <= m]

\* After warm-up a trace holds a moment that has passed or is the current
\* one, followed by a moment still to come.
C4_Witness ==
    /\ ~is_warmup
    /\ \E key \in DOMAIN chunk_access_dict :
          LET trace == chunk_access_dict[key]
          IN /\ Len(trace) = 2
             /\ trace[1] <= moment
             /\ trace[2] > moment
             /\ chunk_next_used_moment(key[1], key[2]) = trace[2]

\* the pair has no recorded trace
Untraced(chunk_id, dev) == <<chunk_id, dev>> \notin DOMAIN chunk_access_dict

\* the pair has a recorded trace
Traced(chunk_id, dev) == <<chunk_id, dev>> \in DOMAIN chunk_access_dict

\* the pair has a recorded trace all of whose moments lie in the period
TracedInPeriod(chunk_id, dev) ==
    /\ Traced(chunk_id, dev)
    /\ \A n \in 1 .. Len(chunk_access_dict[<<chunk_id, dev>>]) :
          chunk_access_dict[<<chunk_id, dev>>][n] < total_moment

C6_WarmupTies ==
    is_warmup =>
        /\ \A c \in ChunkIds, d \in Devices : chunk_next_used_moment(c, d) = 0
        /\ Returned =>
              \A k, l \in PlanIndices : k < l => moved_list[k] < moved_list[l]

\* During warm-up a plan of two chunks or more was returned while the trace
\* of one of its chunks on the target holds a moment other than 0 and the
\* next chunk of the plan has no trace.
C6_Witness ==
    /\ Returned
    /\ is_warmup
    /\ \E k \in PlanIndices :
          /\ k + 1 \in PlanIndices
          /\ Traced(moved_list[k], target_device)
          /\ chunk_access_dict[<<moved_list[k], target_device>>][1] > 0
          /\ Untraced(moved_list[k + 1], target_device)

\* a trace_access call made when warm-up has ended
TraceAfterWarmup ==
    /\ ~is_warmup
    /\ \E c \in ChunkIds, d \in Devices : trace_access(c, d)

\* C7 (the trace is read-only after warm-up): a trace_access call made while
\* is_warmup is false leaves every sequence of the AccessTrace unchanged and
\* creates no sequence.
C7_ReadOnlyAfterWarmup ==
    [][TraceAfterWarmup => chunk_access_dict' = chunk_access_dict]_vars

\* C8 (no effect on predictions): a trace_access call made after warm-up
\* leaves the prediction of every chunk on every device at every current
\* moment as it was.
C8_PredictionsKept ==
    [][TraceAfterWarmup =>
          \A c \in ChunkIds, d \in Devices, m \in 0 .. MaxMoment :
              NextUsedMoment(FALSE, m, total_moment, chunk_access_dict', c, d)
                  = NextUsedMoment(FALSE, m, total_moment, chunk_access_dict, c, d)]_vars

C10_NegativeRejected ==
    (outcome # "none" /\ need_bytes < 0) => outcome = "raised"

\* the plan without its chunk at position k
PlanWithout(k) ==
    SubSeq(moved_list, 1, k - 1) \o SubSeq(moved_list, k + 1, Len(moved_list))

\* the first k chunks of the plan
PlanPrefix(k) == SubSeq(moved_list, 1, k)

\* C11 as stated (minimality of the selected set), for the requests of one
\* byte or more: whenever the plan frees at least need_bytes, no chunk can
\* be removed from it with the remaining chunks still freeing at least
\* need_bytes.
C11_AsStated ==
    (Returned /\ need_bytes > 0 /\ SeqPayload(moved_list) >= need_bytes) =>
        \A k \in PlanIndices : SeqPayload(PlanWithout(k)) < need_bytes

\* C11 amended (minimality as a prefix of the ranking): whenever a plan of
\* two chunks or more frees at least need_bytes, the plan without its last
\* chunk frees less than need_bytes; a chunk other than the last may be
\* removable.
C11_LastChunkNeeded ==
    (Returned /\ SeqPayload(moved_list) >= need_bytes /\ Len(moved_list) >= 2) =>
        SeqPayload(PlanWithout(Len(moved_list))) < need_bytes

\* A plan of two chunks meets the request, its last chunk is needed, and
\* its first chunk could be removed.
C11_Witness ==
    /\ Returned
    /\ Len(moved_list) = 2
    /\ need_bytes > 0
    /\ SeqPayload(moved_list) >= need_bytes
    /\ SeqPayload(PlanWithout(2)) < need_bytes
    /\ SeqPayload(PlanWithout(1)) >= need_bytes

\* C13 as stated (greedy stop): for every need_bytes >= 0 every proper
\* prefix of the plan, the empty one included, has a total payload below
\* need_bytes.
C13_AsStated ==
    (Returned /\ need_bytes >= 0) =>
        \A k \in 0 .. (Len(moved_list) - 1) :
            SeqPayload(PlanPrefix(k)) < need_bytes

\* C13 amended (greedy stop): every proper prefix of the plan that is not
\* empty has a total payload below need_bytes, and so has the empty prefix
\* when need_bytes > 0; with need_bytes = 0 a plan still holds one chunk.
C13_GreedyStop ==
    Returned =>
        \A k \in 0 .. (Len(moved_list) - 1) :
            (k >= 1 \/ need_bytes > 0) => SeqPayload(PlanPrefix(k)) < need_bytes

\* The walk stopped at the second chunk although a third one was evictable.
C13_Witness ==
    /\ Returned
    /\ Len(moved_list) = 2
    /\ Cardinality(EvictableSet) = 3
    /\ SeqPayload(moved_list) >= need_bytes
    /\ SeqPayload(PlanPrefix(1)) < need_bytes

\* the sequence recorded for a key, empty when the key is absent
SequenceOf(dict, key) == IF key \in DOMAIN dict THEN dict[key] ELSE <<>>

CallStep == outcome = "none" /\ outcome' # "none"

C18_NonEmpty ==
    \A key \in DOMAIN chunk_access_dict : Len(chunk_access_dict[key]) >= 1

\* After warm-up a plan holds a chunk whose prediction came from the
\* wrap-around branch: its trace has no moment later than the current one.
C18_Witness ==
    /\ Returned
    /\ ~is_warmup
    /\ \E k \in PlanIndices :
          /\ <<moved_list[k], target_device>> \in DOMAIN chunk_access_dict
          /\ ScanAccessList(chunk_access_dict[<<moved_list[k], target_device>>], moment, 1) = -1
          /\ Predicted(moved_list[k]) =
                 total_moment + chunk_access_dict[<<moved_list[k], target_device>>][1]

\* every recorded moment is below total_moment
RecordedInPeriod ==
    \A key \in DOMAIN chunk_access_dict :
        \A n \in 1 .. Len(chunk_access_dict[key]) : chunk_access_dict[key][n] < total_moment

C20_EmptyIffNoCandidate ==
    Returned => (moved_list = <<>> <=> EvictableSet = {})

\* A call asking for 0 bytes returned a plan of one chunk, with a second
\* evictable chunk left in place.
C20_Witness ==
    /\ Returned
    /\ need_bytes = 0
    /\ Len(moved_list) = 1
    /\ Cardinality(EvictableSet) >= 2


\* C21 (well-formed plan): a returned plan holds no chunk identifier twice,
\* and every identifier of it is an index of the registry passed to the call.
C21_DistinctValidIds ==
    Returned =>
        /\ \A k, l \in PlanIndices : k # l => moved_list[k] # moved_list[l]
        /\ \A k \in PlanIndices : moved_list[k] \in DOMAIN chunks

\* A plan that holds every chunk of the registry.
C21_Witness ==
    /\ Returned
    /\ Len(moved_list) = NChunks
    /\ PlanSet = DOMAIN chunks

\* the traces of the chunk on the devices other than dev
OtherDeviceKeys(dict, chunk_id, dev) ==
    {k \in DOMAIN dict : k[1] = chunk_id /\ k[2] # dev}

\* after warm-up a chunk without a trace on dev is predicted as unseen on
\* dev, whatever is recorded for it on other devices
UnseenOnDevice(warm, cur_mom, total_mom, dict) ==
    ~warm =>
        \A c \in ChunkIds, d \in Devices :
            <<c, d>> \notin DOMAIN dict =>
                NextUsedMoment(warm, cur_mom, total_mom, dict, c, d) = 2 * total_mom

\* C22 (predictions are per device): after warm-up a chunk traced only on a
\* device other than the target is predicted as unseen (2 * total_moment) on
\* the target, in every state a step starts from or ends in; and a
\* trace_access of a chunk on one device leaves the prediction of every
\* chunk on every other device as it was.
C22_PerDevice ==
    [][/\ UnseenOnDevice(is_warmup, moment, total_moment, chunk_access_dict)
       /\ UnseenOnDevice(is_warmup', moment', total_moment', chunk_access_dict')
       /\ \A c \in ChunkIds, d \in Devices :
              trace_access(c, d) =>
                  \A c2 \in ChunkIds, d2 \in Devices \ {d} :
                      NextUsedMoment(is_warmup', moment', total_moment',
                                     chunk_access_dict', c2, d2)
                          = chunk_next_used_moment(c2, d2)]_vars

\* After warm-up the chunk moved first has a trace on the other device only
\* and is predicted as unseen on the target, ahead of an evictable chunk
\* whose trace on the target predicts an earlier use.
C22_Witness ==
    /\ Returned
    /\ ~is_warmup
    /\ total_moment > 0
    /\ Len(moved_list) >= 2
    /\ <<moved_list[1], target_device>> \notin DOMAIN chunk_access_dict
    /\ OtherDeviceKeys(chunk_access_dict, moved_list[1], target_device) # {}
    /\ Predicted(moved_list[1]) = 2 * total_moment
    /\ <<moved_list[2], target_device>> \in DOMAIN chunk_access_dict
    /\ Predicted(moved_list[2]) < 2 * total_moment

====
